---- MODULE Spec2Model ----
(***************************************************************************)
(* NetBird dynamic inventory plugin (src/netbird_inventory.py).            *)
(*                                                                         *)
(* InventoryModule has two entry points that Ansible calls separately:     *)
(*   verify_file(path)                       -- specification SpecVerify   *)
(*   parse(inventory, loader, path, cache)   -- specification Spec         *)
(* parse is modelled statement block by statement block; the inventory     *)
(* sink (add_host / set_variable) is part of the state.                    *)
(***************************************************************************)
EXTENDS Naturals, Sequences, FiniteSets, TLC

VARIABLES
    vpc,        \* verify_file: "idle" before the call, "verified" after it
    path,       \* the path handed to verify_file
    baseOk,     \* what super().verify_file(path) returned
    accepted,   \* what verify_file returned
    pc,         \* position inside parse
    cache,      \* the cache argument of parse
    cfg,        \* option names the inventory source file provides
    sdk,        \* "unknown" | "ok" | "missing" : outcome of the import
    client,     \* "none" | "ok" | "failed"     : outcome of APIClient(...)
    err,        \* "none" | "config" | "import" | "init" | "fetch"
    netCalls,   \* number of client.peers.list() calls issued
    peers,      \* the list client.peers.list() returned
    i,          \* number of peers the for loop has taken from the list
    hostname,   \* the loop's local variable
    hosts,      \* sink: registered host names
    hostvars,   \* sink: host name -> (variable name -> value)
    added,      \* the add_host calls made, in order
    nSet        \* number of set_variable calls made

vars == << vpc, path, baseOk, accepted, pc, cache, cfg, sdk, client, err,
           netCalls, peers, i, hostname, hosts, hostvars, added, nSet >>

verifyVars == << vpc, path, baseOk, accepted >>
parseVars == << pc, cache, cfg, sdk, client, err, netCalls, peers, i,
                hostname, hosts, hostvars, added, nSet >>
sinkVars == << hosts, hostvars, added, nSet >>

-----------------------------------------------------------------------------
(* Bounds *)

\* longest peer list the API returns in the model
MaxPeers == 2

\* longest directory prefix put in front of a file name
MaxPrefix == 2

-----------------------------------------------------------------------------
(* verify_file *)

\* str.endswith(suffix) for one suffix
EndsWithOne(s, suf) ==
    /\ Len(s) >= Len(suf)
    /\ SubSeq(s, Len(s) - Len(suf) + 1, Len(s)) = suf

\* str.endswith(tuple_of_suffixes)
endswith(s, sufs) == \E suf \in sufs : EndsWithOne(s, suf)

\* the suffixes of line 70
Suffixes == {"netbird.yml", "netbird.yaml"}

verify_file_anyyml(p, base) == base /\ endswith(p, {".yml", ".yaml"})

\* line 70: super().verify_file(path) and path.endswith((...))
verify_file(p, base) == base /\ endswith(p, Suffixes)

RECURSIVE Prefixes(_)
Prefixes(n) ==
    IF n = 0 THEN {""}
    ELSE Prefixes(n - 1) \cup
         { pre \o c : pre \in { q \in Prefixes(n - 1) : Len(q) = n - 1 },
                      c \in {"x", "/"} }

FileNames == {"netbird.yml", "netbird.yaml", "foo.yml", "netbird.yml.bak",
              "netbird.ym", "etbird.yml", "netbird.yamll", "netbird.json", ""}

Paths == { pre \o f : pre \in Prefixes(MaxPrefix), f \in FileNames }

VerifyFile ==
    /\ vpc = "idle"
    /\ \E p \in Paths, base \in BOOLEAN :
        /\ path' = p
        /\ baseOk' = base
        /\ accepted' = verify_file(p, base)
    /\ vpc' = "verified"
    /\ UNCHANGED parseVars

-----------------------------------------------------------------------------
(* parse: options, SDK import, client construction *)

\* options DOCUMENTATION marks required: true (lines 35, 41, 45)
Required == {"plugin", "host", "api_token"}

\* the required options the source file does not provide
MissingRequired(c) == Required \ c

\* lines 73-83: super().parse, _read_config_data, get_option x 5
ReadConfig ==
    /\ pc = "start"
    /\ \E c \in SUBSET Required, ca \in BOOLEAN :
        /\ cfg' = c
        /\ cache' = ca
        /\ IF MissingRequired(c) # {}
             THEN pc' = "failed" /\ err' = "config"
             ELSE pc' = "import" /\ err' = err
    /\ UNCHANGED << sdk, client, netCalls, peers, i, hostname >>
    /\ UNCHANGED sinkVars
    /\ UNCHANGED verifyVars

\* lines 88-94: from netbird import APIClient
ImportSdk ==
    /\ pc = "import"
    /\ \E ok \in BOOLEAN :
        IF ok THEN sdk' = "ok" /\ pc' = "init" /\ err' = err
              ELSE sdk' = "missing" /\ pc' = "failed" /\ err' = "import"
    /\ UNCHANGED << cache, cfg, client, netCalls, peers, i, hostname >>
    /\ UNCHANGED sinkVars
    /\ UNCHANGED verifyVars

InitClient_swallow ==
    /\ pc = "init"
    /\ \E ok \in BOOLEAN :
        IF ok THEN client' = "ok" /\ pc' = "fetch" /\ err' = err
              ELSE client' = "failed" /\ pc' = "fetch" /\ err' = err
    /\ UNCHANGED << cache, cfg, sdk, netCalls, peers, i, hostname >>
    /\ UNCHANGED sinkVars
    /\ UNCHANGED verifyVars

\* lines 100-110: client = APIClient(...)
InitClient ==
    /\ pc = "init"
    /\ \E ok \in BOOLEAN :
        IF ok THEN client' = "ok" /\ pc' = "fetch" /\ err' = err
              ELSE client' = "failed" /\ pc' = "failed" /\ err' = "init"
    /\ UNCHANGED << cache, cfg, sdk, netCalls, peers, i, hostname >>
    /\ UNCHANGED sinkVars
    /\ UNCHANGED verifyVars

-----------------------------------------------------------------------------
(* Peers: mappings from string keys to values *)

Absent == "<absent>"     \* marks a key the record does not carry (construction only)
NoneVal == "<None>"      \* Python's None, the result of dict.get on a missing key

Keys == {"dns_label", "name", "id", "ip", "ansible_host"}

\* the record with the given values, a key marked Absent left out
MkPeer(d, n, id, ip, ah) ==
    LET raw == [k \in Keys |->
                  CASE k = "dns_label" -> d
                    [] k = "name" -> n
                    [] k = "id" -> id
                    [] k = "ip" -> ip
                    [] k = "ansible_host" -> ah]
    IN [k \in {x \in Keys : raw[x] # Absent} |-> raw[k]]

PeerSet(D, N, I, P, A) ==
    { MkPeer(d, n, id, ip, ah) : d \in D, n \in N, id \in I, ip \in P, ah \in A }

\* every combination of absent / empty / non-empty identifiers, and every
\* combination of ip and ansible_host on a few identifier shapes
PeerUniverse ==
    PeerSet({Absent, "", "a"}, {Absent, "", "b"}, {Absent, "", "b", "c"},
            {Absent}, {Absent})
    \cup PeerSet({Absent, "a"}, {Absent}, {Absent, "c"},
                 {Absent, "", "10.0.0.5"}, {Absent, "h"})

RECURSIVE SeqsUpTo(_, _)
SeqsUpTo(S, n) ==
    IF n = 0 THEN {<< >>}
    ELSE SeqsUpTo(S, n - 1) \cup
         { Append(q, x) : q \in { r \in SeqsUpTo(S, n - 1) : Len(r) = n - 1 },
                          x \in S }

PeerLists == SeqsUpTo(PeerUniverse, MaxPeers)

\* bool(v) for the values of the model: None and "" are falsy
Truthy(v) == v # NoneVal /\ v # ""

\* peer.get(k)
Get(peer, k) == IF k \in DOMAIN peer THEN peer[k] ELSE NoneVal

\* a or b
Or(a, b) == IF Truthy(a) THEN a ELSE b

Hostname_nameFirst(peer) ==
    Or(Or(Get(peer, "name"), Get(peer, "dns_label")), Get(peer, "id"))

\* line 122: peer.get("dns_label") or peer.get("name") or peer.get("id")
Hostname(peer) ==
    Or(Or(Get(peer, "dns_label"), Get(peer, "name")), Get(peer, "id"))

Skip_never(h) == FALSE

\* line 123: if not hostname
Skip(h) == ~Truthy(h)

-----------------------------------------------------------------------------
(* The inventory sink *)

EmptyMap == [x \in {} |-> ""]

\* inventory.add_host(h)
add_host(hs, h) == hs \cup {h}

\* inventory.set_variable(h, k, v)
set_variable(hv, h, k, v) ==
    LET old == IF h \in DOMAIN hv THEN hv[h] ELSE EmptyMap
        new == [x \in DOMAIN old \cup {k} |-> IF x = k THEN v ELSE old[x]]
    IN [y \in DOMAIN hv \cup {h} |-> IF y = h THEN new ELSE hv[y]]

RECURSIVE SetItems(_, _, _, _)
\* lines 133-134 over the keys ks of peer
SetItems(hv, h, peer, ks) ==
    IF ks = {} THEN hv
    ELSE LET k == CHOOSE x \in ks : TRUE
         IN SetItems(set_variable(hv, h, k, peer[k]), h, peer, ks \ {k})

SetAll_keepFirst(hv, h, peer) ==
    SetItems(hv, h, peer,
             {k \in DOMAIN peer : ~(h \in DOMAIN hv /\ k \in DOMAIN hv[h])})

\* lines 133-134: for key, value in peer.items(): set_variable(hostname, key, value)
SetAll(hv, h, peer) == SetItems(hv, h, peer, DOMAIN peer)

-----------------------------------------------------------------------------
(* parse: fetch and the loop over the peers *)

FetchFail_swallow ==
    /\ pc = "fetch"
    /\ netCalls' = netCalls + 1
    /\ err' = "fetch"
    /\ \E ps \in PeerLists : peers' = ps
    /\ pc' = "loop"
    /\ UNCHANGED << cache, cfg, sdk, client, i, hostname >>
    /\ UNCHANGED sinkVars
    /\ UNCHANGED verifyVars

FetchFail_retry ==
    /\ pc = "fetch"
    /\ netCalls < 3
    /\ netCalls' = netCalls + 1
    /\ \/ pc' = "fetch" /\ err' = err
       \/ pc' = "failed" /\ err' = "fetch"
    /\ UNCHANGED << cache, cfg, sdk, client, peers, i, hostname >>
    /\ UNCHANGED sinkVars
    /\ UNCHANGED verifyVars

\* lines 115-118: client.peers.list() raises
FetchFail ==
    /\ pc = "fetch"
    /\ netCalls' = netCalls + 1
    /\ err' = "fetch"
    /\ pc' = "failed"
    /\ UNCHANGED << cache, cfg, sdk, client, peers, i, hostname >>
    /\ UNCHANGED sinkVars
    /\ UNCHANGED verifyVars

\* lines 115-116: client.peers.list() returns
FetchOk ==
    /\ pc = "fetch"
    /\ netCalls' = netCalls + 1
    /\ \E ps \in PeerLists : peers' = ps
    /\ pc' = "loop"
    /\ UNCHANGED << cache, cfg, sdk, client, err, i, hostname >>
    /\ UNCHANGED sinkVars
    /\ UNCHANGED verifyVars

\* lines 120-124: take the next peer, compute hostname, skip it or go on
LoopNext ==
    /\ pc = "loop"
    /\ i < Len(peers)
    /\ i' = i + 1
    /\ hostname' = Hostname(peers[i + 1])
    /\ pc' = IF Skip(Hostname(peers[i + 1])) THEN "loop" ELSE "add"
    /\ UNCHANGED << cache, cfg, sdk, client, err, netCalls, peers >>
    /\ UNCHANGED sinkVars
    /\ UNCHANGED verifyVars

\* line 120: the list is exhausted, parse returns
LoopEnd ==
    /\ pc = "loop"
    /\ i = Len(peers)
    /\ pc' = "done"
    /\ UNCHANGED << cache, cfg, sdk, client, err, netCalls, peers, i, hostname >>
    /\ UNCHANGED sinkVars
    /\ UNCHANGED verifyVars

AddHost_omitted ==
    /\ pc = "add"
    /\ pc' = "ip"
    /\ UNCHANGED << cache, cfg, sdk, client, err, netCalls, peers, i, hostname >>
    /\ UNCHANGED sinkVars
    /\ UNCHANGED verifyVars

\* line 126: self.inventory.add_host(hostname)
AddHost ==
    /\ pc = "add"
    /\ hosts' = add_host(hosts, hostname)
    /\ added' = Append(added, hostname)
    /\ pc' = "ip"
    /\ UNCHANGED << cache, cfg, sdk, client, err, netCalls, peers, i, hostname,
                    hostvars, nSet >>
    /\ UNCHANGED verifyVars

MapIp_skip ==
    /\ pc = "ip"
    /\ pc' = "vars"
    /\ UNCHANGED << cache, cfg, sdk, client, err, netCalls, peers, i, hostname >>
    /\ UNCHANGED sinkVars
    /\ UNCHANGED verifyVars

\* lines 129-130: if peer.get("ip"): set_variable(hostname, "ansible_host", peer["ip"])
MapIp ==
    /\ pc = "ip"
    /\ IF Truthy(Get(peers[i], "ip"))
         THEN /\ hostvars' = set_variable(hostvars, hostname, "ansible_host",
                                          peers[i]["ip"])
              /\ nSet' = nSet + 1
         ELSE UNCHANGED << hostvars, nSet >>
    /\ pc' = "vars"
    /\ UNCHANGED << cache, cfg, sdk, client, err, netCalls, peers, i, hostname,
                    hosts, added >>
    /\ UNCHANGED verifyVars

\* lines 133-134: the loop over peer.items()
SetVars ==
    /\ pc = "vars"
    /\ hostvars' = SetAll(hostvars, hostname, peers[i])
    /\ nSet' = nSet + Cardinality(DOMAIN peers[i])
    /\ pc' = "loop"
    /\ UNCHANGED << cache, cfg, sdk, client, err, netCalls, peers, i, hostname,
                    hosts, added >>
    /\ UNCHANGED verifyVars

-----------------------------------------------------------------------------
(* Specifications *)

Init ==
    /\ vpc = "idle"
    /\ path = ""
    /\ baseOk = FALSE
    /\ accepted = FALSE
    /\ pc = "start"
    /\ cache = TRUE
    /\ cfg = {}
    /\ sdk = "unknown"
    /\ client = "none"
    /\ err = "none"
    /\ netCalls = 0
    /\ peers = << >>
    /\ i = 0
    /\ hostname = NoneVal
    /\ hosts = {}
    /\ hostvars = EmptyMap
    /\ added = << >>
    /\ nSet = 0

Next ==
    \/ ReadConfig
    \/ ImportSdk
    \/ InitClient
    \/ FetchFail
    \/ FetchOk
    \/ LoopNext
    \/ LoopEnd
    \/ AddHost
    \/ MapIp
    \/ SetVars

\* one invocation of parse
Spec == Init /\ [][Next]_vars

NextVerify == VerifyFile

\* one invocation of verify_file
SpecVerify == Init /\ [][NextVerify]_vars

-----------------------------------------------------------------------------
(* Vocabulary of the properties, stated on the peer records themselves *)

\* the record carries key k with a non-empty value
NonEmptyAt(p, k) == k \in DOMAIN p /\ p[k] # ""

\* the record has a usable identifier
HasIdent(p) ==
    NonEmptyAt(p, "dns_label") \/ NonEmptyAt(p, "name") \/ NonEmptyAt(p, "id")

\* the first non-empty value among dns_label, name, id
FirstIdent(p) ==
    IF NonEmptyAt(p, "dns_label") THEN p["dns_label"]
    ELSE IF NonEmptyAt(p, "name") THEN p["name"]
    ELSE p["id"]

\* peer i has been taken from the list and every statement of the loop body ran
Processed == pc \in {"loop", "done"} /\ i >= 1

\* the host variable k of host h has value v
HasVar(h, k, v) ==
    /\ h \in DOMAIN hostvars
    /\ k \in DOMAIN hostvars[h]
    /\ hostvars[h][k] = v

RECURSIVE IdentsInOrder(_, _)
\* the identifiers of the first k records, in list order, records without one left out
IdentsInOrder(ps, k) ==
    IF k = 0 THEN << >>
    ELSE IF HasIdent(ps[k]) THEN Append(IdentsInOrder(ps, k - 1), FirstIdent(ps[k]))
    ELSE IdentsInOrder(ps, k - 1)

SinkEmpty == hosts = {} /\ hostvars = EmptyMap /\ added = << >> /\ nSet = 0

-----------------------------------------------------------------------------
(* Properties *)

\* C1: the hostname passed to add_host for a peer is the first non-empty value
\* among dns_label, name, id, in that order; dns_label="a", name="b", id="c"
\* registers "a".
C1_HostnamePriority ==
    /\ pc \in {"add", "ip", "vars"} => hostname = FirstIdent(peers[i])
    /\ pc \in {"ip", "vars"} =>
         /\ Len(added) >= 1
         /\ added[Len(added)] = FirstIdent(peers[i])
         /\ peers[i] = MkPeer("a", "b", "c", Absent, Absent) =>
              added[Len(added)] = "a"

C1_Witness ==
    /\ pc = "ip"
    /\ peers[i] = MkPeer("a", "b", "c", Absent, Absent)
    /\ added[Len(added)] = "a"

\* C2: when every record of the list has a distinct non-empty id, parse ends
\* with exactly as many registered hosts as the list has records.
C2_OneHostPerPeer ==
    (/\ pc = "done"
     /\ \A j \in 1..Len(peers) : NonEmptyAt(peers[j], "id")
     /\ \A j, k \in 1..Len(peers) : j # k => peers[j]["id"] # peers[k]["id"])
    => Cardinality(hosts) = Len(peers)

\* C3: a peer whose dns_label, name and id are all absent or empty causes no
\* add_host call, no set_variable call and no error, the loop goes on to the
\* next peer, and no registered hostname is empty.
C3_SkipWithoutIdentifier ==
    /\ [](\A h \in hosts : h # "" /\ h # NoneVal)
    /\ [](\A n \in 1..Len(added) : added[n] # "" /\ added[n] # NoneVal)
    /\ [][(pc = "loop" /\ i < Len(peers) /\ ~HasIdent(peers[i + 1]))
            => /\ pc' = "loop"
               /\ i' = i + 1
               /\ err' = err
               /\ UNCHANGED sinkVars]_vars
    /\ [](pc = "done" => i = Len(peers))

C3_Witness ==
    /\ pc = "done"
    /\ Len(peers) = 2
    /\ peers[1] = MkPeer("", Absent, "", Absent, Absent)
    /\ HasIdent(peers[2])
    /\ added = << FirstIdent(peers[2]) >>
    /\ err = "none"

\* C4 as stated: after a registered peer with a non-empty ip has been processed,
\* its host's ansible_host variable and its ip variable both equal the ip, also
\* when the record carries its own ansible_host key.
C4_Original ==
    (Processed /\ HasIdent(peers[i]) /\ NonEmptyAt(peers[i], "ip"))
    => /\ HasVar(FirstIdent(peers[i]), "ansible_host", peers[i]["ip"])
       /\ HasVar(FirstIdent(peers[i]), "ip", peers[i]["ip"])

\* C4 amended: after a registered peer with a non-empty ip has been processed,
\* its host's ip variable equals the ip, and its ansible_host variable equals
\* the ip when the record carries no ansible_host key, and the record's own
\* ansible_host value when it does.
C4_AnsibleHostFromIp ==
    (Processed /\ HasIdent(peers[i]) /\ NonEmptyAt(peers[i], "ip"))
    => /\ HasVar(FirstIdent(peers[i]), "ip", peers[i]["ip"])
       /\ HasVar(FirstIdent(peers[i]), "ansible_host",
                 IF "ansible_host" \in DOMAIN peers[i]
                   THEN peers[i]["ansible_host"]
                   ELSE peers[i]["ip"])

C4_Witness ==
    /\ Processed
    /\ peers[i] = MkPeer(Absent, Absent, "c", "10.0.0.5", Absent)
    /\ HasVar("c", "ansible_host", "10.0.0.5")
    /\ HasVar("c", "ip", "10.0.0.5")

\* C5: after a registered peer has been processed, every key of its record is
\* a variable of its host with the record's value.
C5_RoundTrip ==
    (Processed /\ HasIdent(peers[i]))
    => \A k \in DOMAIN peers[i] : HasVar(FirstIdent(peers[i]), k, peers[i][k])

C5_Witness ==
    /\ Processed
    /\ peers[i] = MkPeer("a", Absent, "c", "10.0.0.5", "h")
    /\ hostvars["a"] = peers[i]

\* C6: when the list-peers call fails, parse ends in the fetch error with no
\* add_host and no set_variable call made.
C6_FetchFailureLeavesSinkEmpty ==
    err = "fetch" => pc = "failed" /\ SinkEmpty

C6_Witness == err = "fetch" /\ pc = "failed" /\ netCalls = 1 /\ SinkEmpty

\* C7: the list-peers call is issued only after the required options were
\* present, the SDK import succeeded and the client was constructed; each of
\* these failing ends parse with no call issued and no host registered.
C7_NoCallBeforeSetup ==
    /\ netCalls > 0 => Required \subseteq cfg /\ sdk = "ok" /\ client = "ok"
    /\ (pc # "start" /\ ~({"host", "api_token"} \subseteq cfg))
         => pc = "failed" /\ err = "config"
    /\ sdk = "missing" => pc = "failed" /\ err = "import"
    /\ client = "failed" => pc = "failed" /\ err = "init"
    /\ err \in {"config", "import", "init"}
         => pc = "failed" /\ netCalls = 0 /\ SinkEmpty

C7_Witness ==
    /\ pc = "failed"
    /\ err = "config"
    /\ "host" \notin cfg
    /\ "api_token" \in cfg
    /\ netCalls = 0

\* C8: the list-peers request is issued at most once per parse, exactly once
\* when the client was constructed, whether it fails or not and whatever the
\* cache argument is.
C8_ExactlyOneRequest ==
    /\ netCalls <= 1
    /\ client # "ok" => netCalls = 0
    /\ (client = "ok" /\ pc # "fetch") => netCalls = 1
    /\ err = "fetch" => netCalls = 1

C8_Witness == cache = TRUE /\ pc = "done" /\ netCalls = 1 /\ Len(peers) = 2

\* C9: verify_file accepts a path only if the base check accepts it and the
\* path ends in netbird.yml or netbird.yaml; a path ending foo.yml is rejected
\* and netbird.yml is accepted.
C9_VerifyFileSuffix ==
    vpc = "verified" =>
      /\ accepted =>
           /\ baseOk
           /\ \E n \in 0..Len(path) :
                \/ path = SubSeq(path, 1, n) \o "netbird.yml"
                \/ path = SubSeq(path, 1, n) \o "netbird.yaml"
      /\ (\E n \in 0..Len(path) : path = SubSeq(path, 1, n) \o "foo.yml")
           => ~accepted
      /\ (baseOk /\ path = "netbird.yml") => accepted

C9_Witness == vpc = "verified" /\ path = "x/netbird.yaml" /\ baseOk /\ accepted

\* C10: peers are processed in list order, and a hostname carries variables
\* only after it was registered.
C10_AddHostBeforeVariables ==
    /\ DOMAIN hostvars \subseteq hosts
    /\ hosts = { added[n] : n \in 1..Len(added) }
    /\ added = IdentsInOrder(peers, IF pc = "add" THEN i - 1 ELSE i)

C10_Witness ==
    /\ pc = "done"
    /\ Len(added) = 2
    /\ added[1] # added[2]
    /\ DOMAIN hostvars = {added[1], added[2]}

====
